---- MODULE Spec2Model ----
(***************************************************************************)
(* Model of packages/daemon/src/utils/index.ts (pipcook daemon utilities): *)
(*   loadConfig / parseConfig   configuration resolution                   *)
(*   pluginQueue                the single-concurrency autostart queue     *)
(*   ServerSentEmitter          the server-sent-event session              *)
(*   copyDir                    the recursive directory replication        *)
(* Strings the code inspects character by character (URIs, package         *)
(* references) are sequences of one-character strings.                     *)
(***************************************************************************)
EXTENDS Integers, Sequences, FiniteSets, TLC

VARIABLES
    cfgSource,      \* loadConfig: the configPath argument of the last call
    cfgFetched,     \* loadConfig: what the awaited request or read yielded
    cfgResult,      \* loadConfig: how the call settled
    cfgIO,          \* loadConfig: the requests and reads the call issued
    cfgPipeline,    \* parseConfig: what parseConfig yields for the same
                    \* configPath (it awaits loadConfig, then maps)
    queue,          \* pluginQueue: jobs, pending, running, session
    qErrorListener, \* pluginQueue: is an 'error' listener registered?
    qStatus,        \* each task: new, queued, running, succeeded, failed
    qPushed,        \* the tasks in the order they were enqueued
    qStarted,       \* the tasks in the order their bodies started
    qPushedBy,      \* each task: 0 (an outside caller) or the running task
                    \* that enqueued it
    qUncaught,      \* the tasks whose failure was thrown by the emit
    ssePhase,       \* ServerSentEmitter: new, open (constructed), finished
    ssePiped,       \* is this.handle piped into this.response?
    sseFlowing,     \* is this.handle in flowing mode?
    sseBuffer,      \* frames written to this.handle and not yet passed on
    sseOut,         \* frames delivered to this.response
    sseEmits,       \* number of caller-issued emit calls
    fs,             \* the file trees: source T, destinations D1 and D2
    cpRuns,         \* the copyDir calls made so far, as <<src, dest>>
    cpPc,           \* copyDir: where the call for each path stands
    cpStat,         \* copyDir: srcStat of the call for each path
    cpTarget,       \* copyDir: resolvedSrc of the call for each path
    cpErr,          \* copyDir: what the call for each path rejected with
    cpFaults,       \* filesystem errors injected so far
    exCall,         \* execAsync: the cmd and opts of the call
    exCallback,     \* execAsync: the err and stdout exec passed its callback
    exPromise       \* execAsync: the state of the returned promise

cfgVars == <<cfgSource, cfgFetched, cfgResult, cfgIO, cfgPipeline>>

queueVars ==
    <<queue, qErrorListener, qStatus, qPushed, qStarted, qPushedBy, qUncaught>>

sseVars == <<ssePhase, ssePiped, sseFlowing, sseBuffer, sseOut, sseEmits>>

copyVars == <<fs, cpRuns, cpPc, cpStat, cpTarget, cpErr, cpFaults>>

execVars == <<exCall, exCallback, exPromise>>

vars == <<cfgVars, queueVars, sseVars, copyVars, execVars>>

\* What the operations of one component leave alone.
notCfg == <<queueVars, sseVars, copyVars, execVars>>
notQueue == <<cfgVars, sseVars, copyVars, execVars>>
notSse == <<cfgVars, queueVars, copyVars, execVars>>
notCopy == <<cfgVars, queueVars, sseVars, execVars>>
notExec == <<cfgVars, queueVars, sseVars, copyVars>>

(***************************************************************************)
(* Bounds                                                                  *)
(***************************************************************************)
MaxPlugins == 2     \* plugin entries in a configuration document
MaxTasks == 3       \* tasks enqueued on pluginQueue
MaxEmits == 2       \* caller-issued emit calls on one ServerSentEmitter
MaxDepth == 2       \* depth of the source tree below its root
MaxEntries == 4     \* entries of the source tree, its root included
MaxFaults == 2      \* filesystem errors injected into the copies

(***************************************************************************)
(* loadConfig                                                              *)
(***************************************************************************)

\* The seven plugin slots of RunConfigI.plugins (parseConfig reads each).
PluginTypes ==
    {"dataCollect", "dataAccess", "dataProcess", "datasetProcess",
     "modelDefine", "modelTrain", "modelEvaluate"}

\* Sample package references: a registry name, a name with a dot inside, a
\* parent-relative path, an absolute path and the empty string.
Packages ==
    { <<"a">>,
      <<"a", ".", "b">>,
      <<".", ".", "/", "e">>,
      <<"/", "a">>,
      <<>> }

ParamValues == {"undefined", "params"}

PluginEntry == [key : PluginTypes, package : Packages, params : ParamValues]

\* path.isAbsolute (POSIX): the string starts with a slash.
IsAbsolute(p) == Len(p) > 0 /\ p[1] = "/"

\* String.prototype.startsWith('.')
StartsWithDot(p) == Len(p) > 0 /\ p[1] = "."

IsLocalPath_AbsoluteOnly(p) == IsAbsolute(p)

\* The test of line 49.
IsLocalPath(p) == IsAbsolute(p) \/ StartsWithDot(p)

\* A configuration document: a name and the plugin entries in key order
\* (the order `for (const key in configJson.plugins)` visits them).
DistinctKeys(ps) == \A i, j \in 1..Len(ps) : i # j => ps[i].key # ps[j].key

PluginLists ==
    UNION { {ps \in [1..n -> PluginEntry] : DistinctKeys(ps)} : n \in 0..MaxPlugins }

\* The seven keys in the order parseConfig reads them.
SlotOrder ==
    <<"dataCollect", "dataAccess", "dataProcess", "datasetProcess",
      "modelDefine", "modelTrain", "modelEvaluate">>

\* For every subset of the seven keys, the plugin entries of a document
\* that populates exactly those (with one sample package and parameters).
SlotLists ==
    { LET keys == SelectSeq(SlotOrder, LAMBDA k : k \in S)
      IN  [i \in 1..Len(keys) |->
              [key |-> keys[i], package |-> <<"a">>, params |-> "params"]] :
      S \in SUBSET PluginTypes }

Documents == [name : {"demo"}, plugins : PluginLists \cup SlotLists]

\* Sample configPath strings.
Sources ==
    { <<"h", "t", "t", "p", ":", "/", "/", "r">>,
      <<"h", "t", "t", "p", "s", ":", "/", "/", "r">>,
      <<"H", "T", "T", "P", ":", "/", "/", "r">>,
      <<"f", "i", "l", "e", ":", "/", "/", "/", "c">>,
      <<" ", "f", "i", "l", "e", ":", "/", "c">>,
      <<"f", "t", "p", ":", "/", "/", "r">>,
      <<"h", "t", "t", "p", "x", ":", "/", "r">>,
      <<"/", "c">>,
      <<"c">>,
      <<"h", "t", "t", "p">>,
      <<":", "c">>,
      <<>> }

\* The characters of the scheme pattern of url.parse, /^[a-z0-9.+-]+:/i,
\* restricted to the characters the samples use.
SchemeChars ==
    {"h", "t", "p", "s", "f", "i", "l", "e", "x", "c", "r",
     "H", "T", "P", ".", "+", "-"}

ToLowerCase(c) ==
    CASE c = "H" -> "h"
      [] c = "T" -> "t"
      [] c = "P" -> "p"
      [] OTHER -> c

\* String.prototype.trim, which url.parse applies before matching.
RECURSIVE Trim(_)
Trim(s) ==
    IF s = <<>> THEN s
    ELSE IF Head(s) = " " THEN Trim(Tail(s))
    ELSE IF s[Len(s)] = " " THEN Trim(SubSeq(s, 1, Len(s) - 1))
    ELSE s

Null == <<>>

\* url.parse(configPath).protocol: the lower-cased scheme with its colon,
\* or null when the string does not begin with one.
Protocol(configPath) ==
    LET rest == Trim(configPath)
        stops == {i \in 1..Len(rest) : rest[i] \notin SchemeChars}
        stop == IF stops = {} THEN 0
                ELSE CHOOSE i \in stops : \A j \in stops : i <= j
    IN  IF stop >= 2 /\ rest[stop] = ":"
        THEN [i \in 1..stop |-> ToLowerCase(rest[i])]
        ELSE Null

HTTP == <<"h", "t", "t", "p", ":">>
HTTPS == <<"h", "t", "t", "p", "s", ":">>
FILE == <<"f", "i", "l", "e", ":">>

\* [ 'http:', 'https:' ].indexOf(urlObj.protocol) >= 0
IsRemote(protocol) == protocol \in {HTTP, HTTPS}

IsFile_AnyOther(protocol) == TRUE

\* urlObj.protocol === 'file:'
IsFile(protocol) == protocol = FILE

\* What the awaited I/O of one call yields: the parsed document, or the
\* failure of the request, of the read or of the JSON parse.
Responses ==
    [kind : {"response"}, ok : {TRUE}, doc : Documents]
        \cup [kind : {"response"}, ok : {FALSE}, doc : {"IOFailure"}]

Returned(doc, http, file) ==
    [result |-> [kind |-> "returned", doc |-> doc],
     io |-> [http |-> http, file |-> file]]

Thrown(message, detail, http, file) ==
    [result |-> [kind |-> "thrown", message |-> message, detail |-> detail],
     io |-> [http |-> http, file |-> file]]

\* The loop of lines 47-52: the first entry, in key order, whose package is
\* a local path; 0 when there is none.
FirstLocal(plugins) ==
    LET bad == {i \in 1..Len(plugins) : IsLocalPath(plugins[i].package)}
    IN  IF bad = {} THEN 0 ELSE CHOOSE i \in bad : \A j \in bad : i <= j

\* Lines 46-52 and 58: the http/https branch.
LoadRemote(response) ==
    IF ~response.ok THEN Thrown("request failed", response.doc, 1, 0)
    ELSE LET k == FirstLocal(response.doc.plugins)
         IN  IF k # 0
             THEN Thrown("local path is invalid for plugin package: ",
                         response.doc.plugins[k].package, 1, 0)
             ELSE Returned(response.doc, 1, 0)

LoadFile_Validating(response) ==
    LET out == LoadRemote(response)
    IN  [out EXCEPT !.io = [http |-> 0, file |-> 1]]

\* Lines 54 and 58: the file branch.
LoadFile(response) ==
    IF ~response.ok THEN Thrown("read failed", response.doc, 0, 1)
    ELSE Returned(response.doc, 0, 1)

LoadConfigOutcome_ValidatesObject(configPath, response) ==
    IF configPath.type = "string"
    THEN LET protocol == Protocol(configPath.value)
         IN  IF protocol = Null
             THEN Thrown("config URI is not supported", Null, 0, 0)
             ELSE IF IsRemote(protocol) THEN LoadRemote(response)
             ELSE IF IsFile(protocol) THEN LoadFile(response)
             ELSE Thrown("protocol is not supported", protocol, 0, 0)
    ELSE LET k == FirstLocal(configPath.value.plugins)
         IN  IF k # 0
             THEN Thrown("local path is invalid for plugin package: ",
                         configPath.value.plugins[k].package, 0, 0)
             ELSE Returned(configPath.value, 0, 0)

\* loadConfig, lines 38-62. configPath is [type |-> "string", value |-> s]
\* or [type |-> "object", value |-> doc].
LoadConfigOutcome(configPath, response) ==
    IF configPath.type = "string"
    THEN LET protocol == Protocol(configPath.value)
         IN  IF protocol = Null
             THEN Thrown("config URI is not supported", Null, 0, 0)
             ELSE IF IsRemote(protocol) THEN LoadRemote(response)
             ELSE IF IsFile(protocol) THEN LoadFile(response)
             ELSE Thrown("protocol is not supported", protocol, 0, 0)
    ELSE Returned(configPath.value, 0, 0)

\* The value undefined; no sample package equals it.
Undefined == <<"undefined">>

\* configJson.plugins.<key>: the entry under the key, if there is one.
HasPlugin(plugins, key) == \E i \in 1..Len(plugins) : plugins[i].key = key

PluginAt(plugins, key) == plugins[CHOOSE i \in 1..Len(plugins) : plugins[i].key = key]

\* configJson.plugins.<key>?.package
PackageOf(plugins, key) ==
    IF HasPlugin(plugins, key) THEN PluginAt(plugins, key).package ELSE Undefined

\* configJson.plugins.<key>?.params
ParamsOf(plugins, key) ==
    IF HasPlugin(plugins, key) THEN PluginAt(plugins, key).params ELSE "undefined"

NewPipeline_EvaluateFromTrain(configJson) ==
    [name |-> configJson.name,
     dataCollect |-> PackageOf(configJson.plugins, "dataCollect"),
     dataCollectParams |-> ParamsOf(configJson.plugins, "dataCollect"),
     dataAccess |-> PackageOf(configJson.plugins, "dataAccess"),
     dataAccessParams |-> ParamsOf(configJson.plugins, "dataAccess"),
     dataProcess |-> PackageOf(configJson.plugins, "dataProcess"),
     dataProcessParams |-> ParamsOf(configJson.plugins, "dataProcess"),
     datasetProcess |-> PackageOf(configJson.plugins, "datasetProcess"),
     datasetProcessParams |-> ParamsOf(configJson.plugins, "datasetProcess"),
     modelDefine |-> PackageOf(configJson.plugins, "modelDefine"),
     modelDefineParams |-> ParamsOf(configJson.plugins, "modelDefine"),
     modelTrain |-> PackageOf(configJson.plugins, "modelTrain"),
     modelTrainParams |-> ParamsOf(configJson.plugins, "modelTrain"),
     modelEvaluate |-> PackageOf(configJson.plugins, "modelTrain"),
     modelEvaluateParams |-> ParamsOf(configJson.plugins, "modelTrain")]

\* new Pipeline({ ... }), lines 66-88
NewPipeline(configJson) ==
    [name |-> configJson.name,
     dataCollect |-> PackageOf(configJson.plugins, "dataCollect"),
     dataCollectParams |-> ParamsOf(configJson.plugins, "dataCollect"),
     dataAccess |-> PackageOf(configJson.plugins, "dataAccess"),
     dataAccessParams |-> ParamsOf(configJson.plugins, "dataAccess"),
     dataProcess |-> PackageOf(configJson.plugins, "dataProcess"),
     dataProcessParams |-> ParamsOf(configJson.plugins, "dataProcess"),
     datasetProcess |-> PackageOf(configJson.plugins, "datasetProcess"),
     datasetProcessParams |-> ParamsOf(configJson.plugins, "datasetProcess"),
     modelDefine |-> PackageOf(configJson.plugins, "modelDefine"),
     modelDefineParams |-> ParamsOf(configJson.plugins, "modelDefine"),
     modelTrain |-> PackageOf(configJson.plugins, "modelTrain"),
     modelTrainParams |-> ParamsOf(configJson.plugins, "modelTrain"),
     modelEvaluate |-> PackageOf(configJson.plugins, "modelEvaluate"),
     modelEvaluateParams |-> ParamsOf(configJson.plugins, "modelEvaluate")]

\* parseConfig, lines 64-89, given how its loadConfig call settled: a
\* rejection of loadConfig rejects parseConfig with the same error.
ParseConfigOutcome(result) ==
    IF result.kind = "returned"
    THEN [kind |-> "pipeline", pipeline |-> NewPipeline(result.doc)]
    ELSE result

ConfigPaths ==
    [type : {"string"}, value : Sources] \cup [type : {"object"}, value : Documents]

NoResult == [kind |-> "none"]
NoIO == [http |-> 0, file |-> 0]
Pending == [kind |-> "pending"]

CfgInit ==
    /\ cfgSource = [type |-> "none"]
    /\ cfgFetched = NoResult
    /\ cfgResult = NoResult
    /\ cfgIO = NoIO
    /\ cfgPipeline = NoResult

\* Does the call reach one of the two awaits (lines 46 and 54)?
Awaits(configPath) ==
    /\ configPath.type = "string"
    /\ LET protocol == Protocol(configPath.value)
       IN  IsRemote(protocol) \/ IsFile(protocol)

\* A call of loadConfig, by parseConfig (line 65), up to its first await
\* or, when it has none, to the end of both. The response argument is not
\* read on the paths without await.
LoadConfig ==
    /\ cfgResult = NoResult
    /\ \E configPath \in ConfigPaths :
        /\ cfgSource' = configPath
        /\ cfgFetched' = NoResult
        /\ IF Awaits(configPath)
           THEN /\ cfgResult' = Pending
                /\ cfgIO' = NoIO
                /\ cfgPipeline' = Pending
           ELSE LET out == LoadConfigOutcome(configPath, NoResult)
                IN  /\ cfgResult' = out.result
                    /\ cfgIO' = out.io
                    /\ cfgPipeline' = ParseConfigOutcome(out.result)
    /\ UNCHANGED notCfg

\* The awaited request or read completes and loadConfig, then parseConfig,
\* run to their end.
LoadConfigResume ==
    /\ cfgResult = Pending
    /\ \E response \in Responses :
        LET out == LoadConfigOutcome(cfgSource, response)
        IN  /\ cfgFetched' = response
            /\ cfgResult' = out.result
            /\ cfgIO' = out.io
            /\ cfgPipeline' = ParseConfigOutcome(out.result)
    /\ UNCHANGED <<cfgSource, notCfg>>

(***************************************************************************)
(* pluginQueue = new Queue({ autostart: true, concurrency: 1 })            *)
(* The dispatch is that of the queue package the line constructs: push     *)
(* appends and, with autostart, calls start(); start() shifts the head job *)
(* while pending < concurrency; the callback next() of a job decrements    *)
(* pending, emits 'error' or 'success', and calls start() again.           *)
(***************************************************************************)

autostart == TRUE

concurrency_Two == 1 + 1

concurrency == 1

Tasks == 1..MaxTasks

\* done(): the session ends and the queue stops running.
QDone(q) == [q EXCEPT !.session = q.session + 1, !.running = FALSE]

Shift_Pop(jobs) ==
    [job |-> jobs[Len(jobs)], rest |-> SubSeq(jobs, 1, Len(jobs) - 1)]

\* this.jobs.shift() in start()
Shift(jobs) == [job |-> Head(jobs), rest |-> Tail(jobs)]

\* start(): q.begun collects the jobs whose bodies this call starts.
RECURSIVE QStart(_)
QStart(q) ==
    LET q1 == [q EXCEPT !.running = TRUE]
    IN  IF q1.pending >= concurrency THEN q1
        ELSE IF q1.jobs = <<>>
        THEN IF q1.pending = 0 THEN QDone(q1) ELSE q1
        ELSE LET s == Shift(q1.jobs)
                 q2 == [q1 EXCEPT !.jobs = s.rest,
                                  !.pending = q1.pending + 1,
                                  !.begun = Append(q1.begun, s.job)]
             IN  IF q2.running /\ q2.jobs # <<>> THEN QStart(q2) ELSE q2

\* push(job)
QPush(q, job) ==
    LET q1 == [q EXCEPT !.jobs = Append(q.jobs, job)]
    IN  IF autostart THEN QStart(q1) ELSE q1

\* next(err): the completion callback of a started job. With an error and
\* no 'error' listener, emit('error', err, job) throws and the rest of the
\* callback is not run.
QNext(q, err, listening) ==
    LET q1 == [q EXCEPT !.pending = q.pending - 1]
    IN  IF err /\ ~listening THEN [q1 EXCEPT !.threw = TRUE]
        ELSE IF q1.pending = 0 /\ q1.jobs = <<>> THEN QDone(q1)
        ELSE IF q1.running THEN QStart(q1)
        ELSE q1

\* The queue fields kept between calls.
Kept(q) ==
    [jobs |-> q.jobs, pending |-> q.pending, running |-> q.running,
     session |-> q.session]

\* The queue fields with the scratch fields of one call.
Call(q) ==
    [jobs |-> q.jobs, pending |-> q.pending, running |-> q.running,
     session |-> q.session, begun |-> <<>>, threw |-> FALSE]

Range(f) == {f[i] : i \in DOMAIN f}

QueueIdle ==
    /\ queue = [jobs |-> <<>>, pending |-> 0, running |-> FALSE, session |-> 0]
    /\ qErrorListener = FALSE
    /\ qStatus = [t \in Tasks |-> "new"]
    /\ qPushed = <<>>
    /\ qStarted = <<>>
    /\ qPushedBy = [t \in Tasks |-> 0]
    /\ qUncaught = {}

Running == {t \in Tasks : qStatus[t] = "running"}

\* pluginQueue.push(task), by an outside caller or by a running task.
Enqueue(t, by) ==
    /\ t = Len(qPushed) + 1
    /\ t \in Tasks
    /\ by \in {0} \cup Running
    /\ LET q == QPush(Call(queue), t)
       IN  /\ queue' = Kept(q)
           /\ qStarted' = qStarted \o q.begun
           /\ qStatus' = [u \in Tasks |->
                            IF u \in Range(q.begun) THEN "running"
                            ELSE IF u = t THEN "queued"
                            ELSE qStatus[u]]
    /\ qPushed' = Append(qPushed, t)
    /\ qPushedBy' = [qPushedBy EXCEPT ![t] = by]
    /\ UNCHANGED <<qErrorListener, qUncaught, notQueue>>

\* The running task t finishes: its promise settles or it calls its
\* callback, with an error (err) or without.
Finish(t, err) ==
    /\ qStatus[t] = "running"
    /\ LET q == QNext(Call(queue), err, qErrorListener)
       IN  /\ queue' = Kept(q)
           /\ qStarted' = qStarted \o q.begun
           /\ qStatus' = [u \in Tasks |->
                            IF u \in Range(q.begun) THEN "running"
                            ELSE IF u = t THEN (IF err THEN "failed" ELSE "succeeded")
                            ELSE qStatus[u]]
           /\ qUncaught' = IF q.threw THEN qUncaught \cup {t} ELSE qUncaught
    /\ UNCHANGED <<qErrorListener, qPushed, qPushedBy, notQueue>>

\* pluginQueue.on('error', listener), by a module that imports the queue.
OnError ==
    /\ ~qErrorListener
    /\ qErrorListener' = TRUE
    /\ UNCHANGED <<queue, qStatus, qPushed, qStarted, qPushedBy, qUncaught, notQueue>>

QueueNext ==
    \/ \E t \in Tasks, by \in {0} \cup Tasks : Enqueue(t, by)
    \/ \E t \in Tasks : Finish(t, FALSE)
    \/ \E t \in Tasks : Finish(t, TRUE)
    \/ OnError

(***************************************************************************)
(* ServerSentEmitter                                                       *)
(* this.handle is a Transform stream piped into this.response. A frame     *)
(* written to the handle goes straight to the response while the pipe is   *)
(* flowing; otherwise it stays in the handle until the pipe flows again.   *)
(* The pipe starts flowing on the tick after pipe(), stops when a write to *)
(* the response reports back-pressure, resumes on the response's 'drain',  *)
(* and is cut by unpipe().                                                 *)
(***************************************************************************)

\* Frames carry who wrote them, to tell a caller's frame from the
\* constructor's and from finish's.
StartFrame == [event |-> "session", data |-> "start", by |-> "constructor"]

CloseFrame == [event |-> "session", data |-> "close", by |-> "finish"]

CallerFrames ==
    [event : {"log", "session"}, data : {"line", "close"}, by : {"caller"}]

SseNew ==
    /\ ssePhase = "new"
    /\ ssePiped = FALSE
    /\ sseFlowing = FALSE
    /\ sseBuffer = <<>>
    /\ sseOut = <<>>
    /\ sseEmits = 0

\* this.handle.write(frame) on the stream state st; accepted tells whether
\* the response took the frame without back-pressure.
Write(st, frame, accepted) ==
    IF st.piped /\ st.flowing /\ st.buffer = <<>>
    THEN [st EXCEPT !.out = Append(st.out, frame), !.flowing = accepted]
    ELSE [st EXCEPT !.buffer = Append(st.buffer, frame)]

\* this.handle.pipe(this.response): flowing begins on a later tick.
Pipe(st) == [st EXCEPT !.piped = TRUE, !.flowing = FALSE]

Unpipe_StaysPiped(st) == st

\* this.handle.unpipe(this.response)
Unpipe(st) == [st EXCEPT !.piped = FALSE, !.flowing = FALSE]

Stream ==
    [piped |-> ssePiped, flowing |-> sseFlowing, buffer |-> sseBuffer, out |-> sseOut]

SetStream(st) ==
    /\ ssePiped' = st.piped
    /\ sseFlowing' = st.flowing
    /\ sseBuffer' = st.buffer
    /\ sseOut' = st.out

\* constructor(ctx), lines 19-24
Construct ==
    /\ ssePhase = "new"
    /\ \E accepted \in BOOLEAN :
          SetStream(Write(Pipe(Stream), StartFrame, accepted))
    /\ ssePhase' = "open"
    /\ UNCHANGED <<sseEmits, notSse>>

\* emit(event, data) by the caller, lines 26-28
Emit(frame) ==
    /\ ssePhase \in {"open", "finished"}
    /\ sseEmits < MaxEmits
    /\ \E accepted \in BOOLEAN : SetStream(Write(Stream, frame, accepted))
    /\ sseEmits' = sseEmits + 1
    /\ UNCHANGED <<ssePhase, notSse>>

\* The body of finish(), lines 31-32.
FinishStream(st, accepted) == Unpipe(Write(st, CloseFrame, accepted))

\* finish(), lines 30-33
SseFinish ==
    /\ ssePhase = "open"
    /\ \E accepted \in BOOLEAN : SetStream(FinishStream(Stream, accepted))
    /\ ssePhase' = "finished"
    /\ UNCHANGED <<sseEmits, notSse>>

\* The pipe (re)starts flowing: the tick after pipe(), or the response's
\* 'drain'. It passes buffered frames on, in order, until the buffer is
\* empty or a write to the response reports back-pressure after frame k.
Flow ==
    /\ ssePiped /\ ~sseFlowing
    /\ \E k \in 0..Len(sseBuffer), accepted \in BOOLEAN :
          /\ k = 0 => sseBuffer = <<>> /\ accepted
          /\ k < Len(sseBuffer) => ~accepted
          /\ sseOut' = sseOut \o SubSeq(sseBuffer, 1, k)
          /\ sseBuffer' = SubSeq(sseBuffer, k + 1, Len(sseBuffer))
          /\ sseFlowing' = accepted
    /\ UNCHANGED <<ssePhase, ssePiped, sseEmits, notSse>>

SseNext ==
    \/ Construct
    \/ \E frame \in CallerFrames : Emit(frame)
    \/ SseFinish
    \/ Flow

(***************************************************************************)
(* copyDir                                                                 *)
(* A file tree maps each path (a sequence of names below the tree's root)  *)
(* to the entry there, or to Absent. Each call copyDir(src, dest) is a     *)
(* task that advances one awaited filesystem operation at a time; the      *)
(* calls of one directory's children run interleaved. A settling promise   *)
(* settles the promises awaiting it in the same step.                      *)
(***************************************************************************)

\* Names of the entries of the root directory.
Names == {"a", "b"}

\* File modes: one the owner may write, one read-only.
Modes == {"644", "444"}

\* Link targets, read from the directory of the link: the sibling entry b
\* (a directory, a file, missing, or the link itself) and a path that
\* names nothing.
Targets == {"b", "../x"}

Absent == [kind |-> "absent", attr |-> "-"]
Dir == [kind |-> "dir", attr |-> "-"]
Fifo == [kind |-> "fifo", attr |-> "-"]
File(mode) == [kind |-> "file", attr |-> mode]
CharDev(mode) == [kind |-> "chardev", attr |-> mode]
Link(target) == [kind |-> "link", attr |-> target]

Leaves ==
    {File(m) : m \in Modes} \cup {CharDev("644")} \cup {Link(t) : t \in Targets}
        \cup {Fifo}

\* Names of the entries of a directory below the root: one entry each.
DeepNames == {"a"}

RECURSIVE PathsUpTo(_)
PathsUpTo(n) ==
    IF n = 0 THEN {<<>>}
    ELSE LET shorter == PathsUpTo(n - 1)
         IN  shorter \cup {Append(q, x) : q \in {r \in shorter : Len(r) = n - 1},
                                            x \in IF n = 1 THEN Names ELSE DeepNames}

AllPaths == PathsUpTo(MaxDepth)

Parent(p) == SubSeq(p, 1, Len(p) - 1)

ChildrenIn(tree, p) == {c \in AllPaths : c # <<>> /\ Parent(c) = p /\ tree[c] # Absent}

\* The shapes of the trees: the root is there, an entry's parent is there,
\* and there are at most MaxEntries entries.
Shapes ==
    {S \in SUBSET AllPaths :
        /\ <<>> \in S
        /\ Cardinality(S) <= MaxEntries
        /\ \A p \in S : p # <<>> => Parent(p) \in S}

\* The trees: an entry's parent is a directory.
Trees ==
    UNION { { [p \in AllPaths |-> IF p \in S THEN f[p] ELSE Absent] :
                f \in {g \in [S -> Leaves \cup {Dir}] :
                          \A p \in S : p # <<>> => g[Parent(p)] = Dir} } :
            S \in Shapes }

NoTree == [p \in AllPaths |-> Absent]

Roots == {"T", "D1", "D2"}

NoError == [path |-> <<>>, op |-> "none"]

CopyIdle ==
    /\ fs \in [T : Trees, D1 : {NoTree}, D2 : {NoTree}]
    /\ cpRuns = <<>>
    /\ cpPc = [p \in AllPaths |-> "idle"]
    /\ cpStat = [p \in AllPaths |-> Absent]
    /\ cpTarget = [p \in AllPaths |-> "-"]
    /\ cpErr = [p \in AllPaths |-> NoError]
    /\ cpFaults = 0

Src == cpRuns[Len(cpRuns)][1]
Dest == cpRuns[Len(cpRuns)][2]

InProgress(pc) ==
    pc \in {"lstat", "ensureDir", "readdir", "await", "copyFile", "chmod",
            "readlink", "symlink"}

\* The calls copyDir made for the children of p (line 98).
Spawned(pcs, p) == {c \in AllPaths : c # <<>> /\ Parent(c) = p /\ pcs[c] # "idle"}

AllFulfilled_Any(pcs, p) == \E c \in Spawned(pcs, p) : pcs[c] = "fulfilled"

\* Promise.all(copyPromises) fulfils when every promise has fulfilled.
AllFulfilled(pcs, p) == \A c \in Spawned(pcs, p) : pcs[c] = "fulfilled"

Awaiting_Never(pcs, p) == FALSE

Awaiting_OrRejected(pcs, p) == pcs[p] \in {"await", "rejected"}

\* Promise.all(copyPromises) of the call for p is pending: once settled it
\* takes no further outcome.
Awaiting(pcs, p) == pcs[p] = "await"

\* The promise of the call for p settles; Promise.all of the parent
\* (line 99) rejects with the first rejection it sees and fulfils when the
\* last child has fulfilled, and so on up to the root call.
RECURSIVE Settle(_, _, _, _)
Settle(st, p, outcome, error) ==
    LET st1 == [pc |-> [st.pc EXCEPT ![p] = outcome],
                err |-> [st.err EXCEPT ![p] = error]]
    IN  IF p = <<>> THEN st1
        ELSE IF ~Awaiting(st1.pc, Parent(p)) THEN st1
        ELSE IF outcome = "rejected" THEN Settle(st1, Parent(p), "rejected", error)
        ELSE IF AllFulfilled(st1.pc, Parent(p))
        THEN Settle(st1, Parent(p), "fulfilled", NoError)
        ELSE st1

Fulfil(p) ==
    LET st == Settle([pc |-> cpPc, err |-> cpErr], p, "fulfilled", NoError)
    IN  cpPc' = st.pc /\ cpErr' = st.err

Reject(p, op) ==
    LET st == Settle([pc |-> cpPc, err |-> cpErr], p, "rejected", [path |-> p, op |-> op])
    IN  cpPc' = st.pc /\ cpErr' = st.err

\* A call copyDir(src, dest) by the caller: the first on T into the fresh
\* D1; the second, once the first has fulfilled, on D1 into the fresh D2
\* or on T into D1 again. It runs up to the await of lstat (line 112).
StartCopy(src, dest) ==
    /\ \/ cpRuns = <<>> /\ src = "T" /\ dest = "D1"
       \/ /\ Len(cpRuns) = 1
          /\ cpPc[<<>>] = "fulfilled"
          /\ <<src, dest>> \in {<<"D1", "D2">>, <<"T", "D1">>}
    /\ cpRuns' = Append(cpRuns, <<src, dest>>)
    /\ cpPc' = [p \in AllPaths |-> IF p = <<>> THEN "lstat" ELSE "idle"]
    /\ cpStat' = [p \in AllPaths |-> Absent]
    /\ cpTarget' = [p \in AllPaths |-> "-"]
    /\ cpErr' = [p \in AllPaths |-> NoError]
    /\ UNCHANGED <<fs, cpFaults, notCopy>>

\* What fs.stat would report: the entry a link leads to.
StatOf_FollowingLinks(tree, p) ==
    IF tree[p].kind # "link" THEN tree[p]
    ELSE LET to == Append(Parent(p), tree[p].attr)
         IN  IF p # <<>> /\ to \in AllPaths /\ tree[to].kind # "link" THEN tree[to]
             ELSE Absent

\* Line 112: fs.lstat(src) reports the entry itself, a link as a link.
StatOf(tree, p) == tree[p]

Handler_OtherAsFile(stat) ==
    CASE stat.kind = "dir" -> "ensureDir"
      [] stat.kind = "link" -> "readlink"
      [] OTHER -> "copyFile"

\* Lines 113-123: the handler the entry type selects: onDir, onFile, onLink,
\* or none for any other type.
Handler(stat) ==
    CASE stat.kind = "dir" -> "ensureDir"
      [] stat.kind \in {"file", "chardev"} -> "copyFile"
      [] stat.kind = "link" -> "readlink"
      [] OTHER -> "none"

\* Lines 112-123: fs.lstat(src) returns and the call dispatches on the
\* entry type, the link itself being inspected. A missing source rejects.
Lstat(p) ==
    /\ cpPc[p] = "lstat"
    /\ LET stat == StatOf(fs[Src], p)
       IN  /\ cpStat' = [cpStat EXCEPT ![p] = stat]
           /\ CASE stat.kind = "absent" -> Reject(p, "lstat")
                [] stat.kind # "absent" /\ Handler(stat) = "none" -> Fulfil(p)
                [] OTHER -> cpPc' = [cpPc EXCEPT ![p] = Handler(stat)] /\ UNCHANGED cpErr
    /\ UNCHANGED <<fs, cpRuns, cpTarget, cpFaults, notCopy>>

\* Line 96: fs.ensureDir(dest) accepts a directory that is there, creates
\* one that is not, and fails on any other entry.
EnsureDir(p) ==
    /\ cpPc[p] = "ensureDir"
    /\ IF fs[Dest][p] \in {Absent, Dir}
       THEN /\ fs' = [fs EXCEPT ![Dest][p] = Dir]
            /\ cpPc' = [cpPc EXCEPT ![p] = "readdir"]
            /\ UNCHANGED cpErr
       ELSE Reject(p, "ensureDir") /\ UNCHANGED fs
    /\ UNCHANGED <<cpRuns, cpStat, cpTarget, cpFaults, notCopy>>

\* Lines 97-99: fs.readdir(src) returns, copyDir is called for every item
\* (each call runs up to its lstat) and Promise.all awaits them all.
Readdir(p) ==
    /\ cpPc[p] = "readdir"
    /\ LET items == ChildrenIn(fs[Src], p)
       IN  IF items = {}
           THEN Fulfil(p)
           ELSE /\ cpPc' = [q \in AllPaths |->
                              IF q = p THEN "await"
                              ELSE IF q \in items THEN "lstat"
                              ELSE cpPc[q]]
                /\ UNCHANGED cpErr
    /\ UNCHANGED <<fs, cpRuns, cpStat, cpTarget, cpFaults, notCopy>>

\* What the umask leaves of a mode when copyFile creates the destination.
Masked(mode) == "600"

\* The process may open the file for writing: the mode gives the owner
\* write permission.
Writable(entry) == entry.attr # "444"

\* Line 103: fs.copyFile(src, dest) writes a regular file: it creates the
\* destination or overwrites the file that is there, and fails on a
\* directory. A read-only file is overwritten by a privileged process and
\* refused (EACCES) to any other.
CopyFile(p) ==
    /\ cpPc[p] = "copyFile"
    /\ LET there == fs[Dest][p]
       IN  IF there = Absent
           THEN /\ fs' = [fs EXCEPT ![Dest][p] = File(Masked(cpStat[p].attr))]
                /\ cpPc' = [cpPc EXCEPT ![p] = "chmod"]
                /\ UNCHANGED cpErr
           ELSE IF there.kind = "file"
           THEN \/ /\ cpPc' = [cpPc EXCEPT ![p] = "chmod"]
                   /\ UNCHANGED <<fs, cpErr>>
                \/ /\ ~Writable(there)
                   /\ Reject(p, "copyFile")
                   /\ UNCHANGED fs
           ELSE Reject(p, "copyFile") /\ UNCHANGED fs
    /\ UNCHANGED <<cpRuns, cpStat, cpTarget, cpFaults, notCopy>>

Chmod_Skipped(entry, mode) == entry

\* fs.chmod(dest, mode) applied to the destination entry.
ChmodEntry(entry, mode) == [entry EXCEPT !.attr = mode]

\* Line 104: fs.chmod(dest, srcStat.mode)
Chmod(p) ==
    /\ cpPc[p] = "chmod"
    /\ fs' = [fs EXCEPT ![Dest][p] = ChmodEntry(fs[Dest][p], cpStat[p].attr)]
    /\ Fulfil(p)
    /\ UNCHANGED <<cpRuns, cpStat, cpTarget, cpFaults, notCopy>>

\* Line 108: fs.readlink(src)
Readlink(p) ==
    /\ cpPc[p] = "readlink"
    /\ cpTarget' = [cpTarget EXCEPT ![p] = fs[Src][p].attr]
    /\ cpPc' = [cpPc EXCEPT ![p] = "symlink"]
    /\ UNCHANGED <<fs, cpRuns, cpStat, cpErr, cpFaults, notCopy>>

CanSymlink_Overwriting(there) == TRUE

\* fs.symlink creates the link only where nothing is (EEXIST otherwise).
CanSymlink(there) == there = Absent

\* Line 109: fs.symlink(resolvedSrc, dest) fails when dest holds an entry.
Symlink(p) ==
    /\ cpPc[p] = "symlink"
    /\ IF CanSymlink(fs[Dest][p])
       THEN /\ fs' = [fs EXCEPT ![Dest][p] = Link(cpTarget[p])]
            /\ Fulfil(p)
       ELSE Reject(p, "symlink") /\ UNCHANGED fs
    /\ UNCHANGED <<cpRuns, cpStat, cpTarget, cpFaults, notCopy>>

\* The awaited filesystem operation of the call for p fails (permission
\* denied, I/O error, ...) and the call rejects with that error.
Fault(p) ==
    /\ cpPc[p] \in {"lstat", "ensureDir", "readdir", "copyFile", "chmod",
                    "readlink", "symlink"}
    /\ cpFaults < MaxFaults
    /\ cpFaults' = cpFaults + 1
    /\ Reject(p, cpPc[p])
    /\ UNCHANGED <<fs, cpRuns, cpStat, cpTarget, notCopy>>

CopyNext ==
    \/ \E src, dest \in Roots : StartCopy(src, dest)
    \/ \E p \in AllPaths : Lstat(p)
    \/ \E p \in AllPaths : EnsureDir(p)
    \/ \E p \in AllPaths : Readdir(p)
    \/ \E p \in AllPaths : CopyFile(p)
    \/ \E p \in AllPaths : Chmod(p)
    \/ \E p \in AllPaths : Readlink(p)
    \/ \E p \in AllPaths : Symlink(p)
    \/ \E p \in AllPaths : Fault(p)

(***************************************************************************)
(* execAsync                                                               *)
(* exec(cmd, opts, callback) calls its callback once, when the subprocess  *)
(* has ended or could not be run.                                          *)
(***************************************************************************)

Commands == {"ls", "npm install", "no-such-command"}

\* ExecOptions: with or without a timeout.
ExecOpts == [timeout : {"none", "set"}]

Outputs == {"", "out", "partial", "out\n"}

\* err of the callback: null, or the ExecException of a non-zero exit, of
\* a spawn failure, or of the kill after the timeout of opts.
NoErr == [name |-> "null"]

ExecErrors(opts) ==
    { [name |-> "ExecException", code |-> "1", killed |-> FALSE],
      [name |-> "ExecException", code |-> "127", killed |-> FALSE],
      [name |-> "ExecException", code |-> "ENOENT", killed |-> FALSE] }
        \cup IF opts.timeout = "set"
             THEN {[name |-> "ExecException", code |-> "null", killed |-> TRUE]}
             ELSE {}

ExecIdle ==
    /\ exCall = NoResult
    /\ exCallback = NoResult
    /\ exPromise = [state |-> "none"]

\* resolve(value) and reject(reason) of the promise: a settled promise
\* stays as it is.
ResolvePromise(promise, value) ==
    IF promise.state = "pending" THEN [state |-> "fulfilled", value |-> value]
    ELSE promise

RejectPromise(promise, reason) ==
    IF promise.state = "pending" THEN [state |-> "rejected", reason |-> reason]
    ELSE promise

OnExec_AlwaysResolve(promise, err, stdout) == ResolvePromise(promise, stdout)

\* Line 129: err == null ? resolve(stdout) : reject(err)
OnExec(promise, err, stdout) ==
    IF err = NoErr THEN ResolvePromise(promise, stdout)
    ELSE RejectPromise(promise, err)

\* execAsync(cmd, opts), lines 126-132: the promise is created and exec is
\* called.
ExecAsync(cmd, opts) ==
    /\ exCall = NoResult
    /\ exCall' = [kind |-> "call", cmd |-> cmd, opts |-> opts]
    /\ exPromise' = [state |-> "pending"]
    /\ UNCHANGED <<exCallback, notExec>>

\* exec calls the callback of line 128.
ExecCallback(err, stdout) ==
    /\ exCall # NoResult
    /\ exCallback = NoResult
    /\ err \in {NoErr} \cup ExecErrors(exCall.opts)
    /\ exCallback' = [kind |-> "called", err |-> err, stdout |-> stdout]
    /\ exPromise' = OnExec(exPromise, err, stdout)
    /\ UNCHANGED <<exCall, notExec>>

ExecNext ==
    \/ \E cmd \in Commands, opts \in ExecOpts : ExecAsync(cmd, opts)
    \/ \E opts \in ExecOpts :
          \E err \in {NoErr} \cup ExecErrors(opts), stdout \in Outputs :
              ExecCallback(err, stdout)

CopyFixed ==
    /\ fs = [T |-> NoTree, D1 |-> NoTree, D2 |-> NoTree]
    /\ cpRuns = <<>>
    /\ cpPc = [p \in AllPaths |-> "idle"]
    /\ cpStat = [p \in AllPaths |-> Absent]
    /\ cpTarget = [p \in AllPaths |-> "-"]
    /\ cpErr = [p \in AllPaths |-> NoError]
    /\ cpFaults = 0

Init == CfgInit /\ QueueIdle /\ SseNew /\ CopyFixed /\ ExecIdle

Next == LoadConfig \/ LoadConfigResume

Spec == Init /\ [][Next]_vars

QueueSpec == Init /\ [][QueueNext]_vars

\* Every started task body eventually settles; nothing obliges a caller to
\* enqueue or to register a listener.
QueueFairSpec ==
    /\ QueueSpec
    /\ \A t \in Tasks : WF_vars(Finish(t, FALSE) \/ Finish(t, TRUE))

SseSpec == Init /\ [][SseNext]_vars

CopyInit == CfgInit /\ QueueIdle /\ SseNew /\ CopyIdle /\ ExecIdle

CopySpec == CopyInit /\ [][CopyNext]_vars

ExecSpec == Init /\ [][ExecNext]_vars

(***************************************************************************)
(* Claims about loadConfig                                                 *)
(***************************************************************************)

CfgSettled == cfgResult.kind \in {"returned", "thrown"}

\* A package reference that is an absolute path or starts with a dot.
LocalRef(p) == p # <<>> /\ Head(p) \in {"/", "."}

HasLocalRef(doc) == \E i \in 1..Len(doc.plugins) : LocalRef(doc.plugins[i].package)

\* The call fetched a document over http or https.
FetchedRemote == CfgSettled /\ cfgIO.http = 1 /\ cfgFetched.kind # "none" /\ cfgFetched.ok

\* The call read a document through a file: source.
FetchedFile == CfgSettled /\ cfgIO.file = 1 /\ cfgFetched.kind # "none" /\ cfgFetched.ok

\* C1: a document fetched over http/https with a plugin package that is an
\* absolute path or starts with "." makes loadConfig throw the
\* invalid-plugin error naming the offending package (the first one in key
\* order) verbatim, and the document is not returned; so a document
\* returned for a remote source holds no such package.
C1_RemoteLocalRefRejected ==
    /\ (FetchedRemote /\ HasLocalRef(cfgFetched.doc)) =>
          /\ cfgResult.kind = "thrown"
          /\ cfgResult.message = "local path is invalid for plugin package: "
          /\ \E i \in 1..Len(cfgFetched.doc.plugins) :
                /\ LocalRef(cfgFetched.doc.plugins[i].package)
                /\ \A j \in 1..(i - 1) : ~LocalRef(cfgFetched.doc.plugins[j].package)
                /\ cfgResult.detail = cfgFetched.doc.plugins[i].package
    /\ (CfgSettled /\ cfgIO.http = 1 /\ cfgResult.kind = "returned") =>
          ~HasLocalRef(cfgResult.doc)

C1_Witness ==
    /\ FetchedRemote
    /\ Len(cfgFetched.doc.plugins) = 2
    /\ ~LocalRef(cfgFetched.doc.plugins[1].package)
    /\ cfgFetched.doc.plugins[2].package = <<".", ".", "/", "e">>
    /\ cfgResult.kind = "thrown"
    /\ cfgResult.detail = <<".", ".", "/", "e">>

\* The sample sources without a scheme, and with a scheme other than http,
\* https and file.
BarePaths == { <<"/", "c">>, <<"c">>, <<"h", "t", "t", "p">>, <<":", "c">>, <<>> }

OtherSchemes ==
    { <<"f", "t", "p", ":", "/", "/", "r">>,
      <<"h", "t", "t", "p", "x", ":", "/", "r">> }

\* C9: a string source whose parsed URI has no scheme, or a scheme other
\* than http, https and file, makes loadConfig throw the
\* unsupported-protocol error; nothing is requested or read and no
\* document is returned.
C9_UnsupportedProtocol ==
    (cfgSource.type = "string" /\ cfgResult.kind # "none") =>
        /\ (cfgSource.value \in BarePaths \/ Protocol(cfgSource.value) = Null) =>
              /\ cfgResult.kind = "thrown"
              /\ cfgResult.message = "config URI is not supported"
              /\ cfgIO = NoIO /\ cfgFetched.kind = "none"
        /\ (cfgSource.value \in OtherSchemes
              \/ Protocol(cfgSource.value) \notin {Null, HTTP, HTTPS, FILE}) =>
              /\ cfgResult.kind = "thrown"
              /\ cfgResult.message = "protocol is not supported"
              /\ cfgResult.detail = Protocol(cfgSource.value)
              /\ cfgIO = NoIO /\ cfgFetched.kind = "none"

C9_Witness ==
    /\ cfgSource.type = "string"
    /\ cfgSource.value = <<"f", "t", "p", ":", "/", "/", "r">>
    /\ cfgResult.kind = "thrown"
    /\ cfgResult.detail = <<"f", "t", "p", ":">>

\* C10: a document read through a file: source is returned as parsed, with
\* no package validation, also when a plugin package is an absolute path
\* or starts with ".".
C10_FileNotValidated ==
    FetchedFile =>
        /\ cfgResult.kind = "returned"
        /\ cfgResult.doc = cfgFetched.doc
        /\ cfgIO.http = 0

C10_Witness ==
    /\ FetchedFile
    /\ HasLocalRef(cfgFetched.doc)
    /\ cfgResult.kind = "returned"
    /\ HasLocalRef(cfgResult.doc)


\* C11: a source that is already a configuration document is returned as
\* it is, whatever its packages, and nothing is requested, read or
\* validated.
C11_DocumentReturnedUnchanged ==
    (cfgSource.type = "object" /\ cfgResult.kind # "none") =>
        /\ cfgResult = [kind |-> "returned", doc |-> cfgSource.value]
        /\ cfgIO = NoIO
        /\ cfgFetched.kind = "none"

C11_Witness ==
    /\ cfgSource.type = "object"
    /\ HasLocalRef(cfgSource.value)
    /\ cfgResult.kind = "returned"
    /\ cfgResult.doc = cfgSource.value
    /\ cfgIO = NoIO

\* The two fields of the pipeline definition that belong to a slot.
PackageField(pipeline, key) == pipeline[key]

ParamsField(pipeline, key) ==
    CASE key = "dataCollect" -> pipeline.dataCollectParams
      [] key = "dataAccess" -> pipeline.dataAccessParams
      [] key = "dataProcess" -> pipeline.dataProcessParams
      [] key = "datasetProcess" -> pipeline.datasetProcessParams
      [] key = "modelDefine" -> pipeline.modelDefineParams
      [] key = "modelTrain" -> pipeline.modelTrainParams
      [] key = "modelEvaluate" -> pipeline.modelEvaluateParams

Populated(doc) == {doc.plugins[i].key : i \in 1..Len(doc.plugins)}

\* C12: parseConfig maps the seven slots independently: whatever subset of
\* slots the document populates, the pipeline definition has the package
\* and params of each populated slot and undefined in both fields of each
\* absent slot, and an absent slot causes no error.
C12_SlotsMappedIndependently ==
    cfgResult.kind = "returned" =>
        /\ cfgPipeline.kind = "pipeline"
        /\ cfgPipeline.pipeline.name = cfgResult.doc.name
        /\ \A i \in 1..Len(cfgResult.doc.plugins) :
              LET plugin == cfgResult.doc.plugins[i]
              IN  /\ PackageField(cfgPipeline.pipeline, plugin.key) = plugin.package
                  /\ ParamsField(cfgPipeline.pipeline, plugin.key) = plugin.params
        /\ \A key \in {"dataCollect", "dataAccess", "dataProcess", "datasetProcess",
                       "modelDefine", "modelTrain", "modelEvaluate"}
                          \ Populated(cfgResult.doc) :
              /\ PackageField(cfgPipeline.pipeline, key) = <<"undefined">>
              /\ ParamsField(cfgPipeline.pipeline, key) = "undefined"

C12_Witness ==
    /\ cfgResult.kind = "returned"
    /\ Populated(cfgResult.doc) = {"dataCollect", "modelTrain"}
    /\ cfgPipeline.kind = "pipeline"
    /\ cfgPipeline.pipeline.dataCollect = <<"a">>
    /\ cfgPipeline.pipeline.modelTrainParams = "params"
    /\ cfgPipeline.pipeline.modelEvaluate = <<"undefined">>
    /\ cfgPipeline.pipeline.dataAccessParams = "undefined"

(***************************************************************************)
(* Claims about pluginQueue                                                *)
(***************************************************************************)

Finished(t) == qStatus[t] \in {"succeeded", "failed"}

\* C2: tasks start in exactly the order they were enqueued, and a task
\* never starts before every task enqueued before it has finished, by
\* success or by failure.
C2_StrictFifo ==
    /\ Len(qStarted) <= Len(qPushed)
    /\ \A i \in 1..Len(qStarted) : qStarted[i] = qPushed[i]
    /\ \A i \in 1..(Len(qStarted) - 1) : Finished(qStarted[i])

C2_Witness ==
    /\ Len(qStarted) = 3
    /\ qStatus[qStarted[1]] = "failed"
    /\ qStatus[qStarted[2]] = "succeeded"
    /\ qStatus[qStarted[3]] = "running"

\* C3: whatever the interleaving of enqueue calls (by outside callers and
\* by running tasks) and completions, at most one task body is executing.
C3_AtMostOneRunning ==
    /\ Cardinality({t \in Tasks : qStatus[t] = "running"}) <= 1
    /\ queue.pending = Cardinality({t \in Tasks : qStatus[t] = "running"})

C3_Witness ==
    /\ \E t \in Tasks : qStatus[t] = "running" /\ qPushedBy[t] # 0
    /\ \E t \in Tasks : qStatus[t] = "queued" /\ qPushedBy[t] # 0
    /\ \E t \in Tasks : qStatus[t] = "failed"

\* C4: when a task finishes by failure while other tasks are queued, the
\* next queued task begins executing in that same step, with no new
\* enqueue and no restart, and the queue does not throw the failure.
C4_FailureDoesNotHalt ==
    [][\A t \in Tasks :
          (qStatus[t] = "running" /\ qStatus'[t] = "failed" /\ queue.jobs # <<>>) =>
              /\ qStatus'[Head(queue.jobs)] = "running"
              /\ qUncaught' = qUncaught]_vars

\* C5: every enqueued task eventually starts, given that every started
\* task eventually finishes.
C5_EventuallyStarts ==
    \A t \in Tasks : (qStatus[t] = "queued") ~> (qStatus[t] # "queued")

(***************************************************************************)
(* Claims about ServerSentEmitter                                          *)
(***************************************************************************)

\* C6: the frames delivered to the response begin with the session/start
\* frame of the constructor, and once finish has been called its
\* session/close frame has been delivered and is the last frame delivered.
C6_StartFirstCloseLast ==
    /\ sseOut # <<>> => sseOut[1] = StartFrame
    /\ ssePhase = "finished" =>
          /\ sseOut # <<>>
          /\ sseOut[Len(sseOut)] = CloseFrame

\* C15: after finish() has been called, no further frame reaches the
\* response: the frames delivered stay as they are, whatever is emitted
\* afterwards.
C15_NothingDeliveredAfterFinish ==
    [][ssePhase = "finished" => sseOut' = sseOut]_vars

\* finish() delivered its close frame, and frames emitted after it sit in
\* the handle.
C15_Witness ==
    /\ ssePhase = "finished"
    /\ sseOut # <<>>
    /\ sseOut[Len(sseOut)] = CloseFrame
    /\ sseBuffer # <<>>
    /\ \A i \in 1..Len(sseBuffer) : sseBuffer[i].by = "caller"

(***************************************************************************)
(* Claims about copyDir                                                    *)
(***************************************************************************)

Settled(p) == cpPc[p] \in {"fulfilled", "rejected"}

Copying(p) == cpPc[p] \notin {"idle", "fulfilled", "rejected"}

Under(p, q) == Len(q) > Len(p) /\ SubSeq(q, 1, Len(p)) = p

\* C7 as stated: at the moment the copy operation settles, by success or
\* by failure, no child copy at any depth is still in progress.
C7_SettledMeansAllDone ==
    \A p \in AllPaths : Settled(p) => \A q \in AllPaths : Under(p, q) => ~Copying(q)

\* C7 as amended: when the copy of a directory fulfils, the copy of every
\* entry below it, at every depth, has fulfilled.
C7_FulfilledMeansAllDone ==
    cpRuns # <<>> =>
        \A p \in AllPaths : cpPc[p] = "fulfilled" =>
            \A q \in AllPaths :
                (Under(p, q) /\ fs[Src][q] # Absent) => cpPc[q] = "fulfilled"

C7_Witness ==
    /\ cpRuns # <<>>
    /\ cpPc[<<>>] = "fulfilled"
    /\ Cardinality({q \in AllPaths : Len(q) = 1 /\ cpPc[q] = "fulfilled"}) = 2
    /\ \E q \in AllPaths : Len(q) = 2 /\ cpPc[q] = "fulfilled"

\* Two entries agree in type, in permission bits when files and in target
\* when symbolic links; a device counts as a file here.
FileLike(e) == e.kind \in {"file", "chardev"}

Alike(e, f) ==
    \/ FileLike(e) /\ FileLike(f) /\ e.attr = f.attr
    \/ ~FileLike(e) /\ e = f

RoundTripDone ==
    /\ cpRuns = << <<"T", "D1">>, <<"D1", "D2">> >>
    /\ cpPc[<<>>] = "fulfilled"

\* C8 as stated: for every tree T, copying T into the fresh D1 and then D1
\* into the fresh D2 yields a tree like T in entry types, file permission
\* bits and link targets.
C8_RoundTripIdentical ==
    RoundTripDone => \A p \in AllPaths : Alike(fs["D2"][p], fs["T"][p])

\* C8 as amended: the same for every tree T made of directories, regular
\* files and symbolic links only, where the two trees are then equal.
C8_RoundTripOfPlainTree ==
    (RoundTripDone
        /\ \A p \in AllPaths : fs["T"][p].kind \in {"absent", "dir", "file", "link"}) =>
            fs["D2"] = fs["T"]

C8_Witness ==
    /\ RoundTripDone
    /\ fs["D2"] = fs["T"]
    /\ \E p \in AllPaths : Len(p) = 2 /\ fs["T"][p].kind = "link"
    /\ \E p \in AllPaths : fs["T"][p] = [kind |-> "file", attr |-> "444"]

(***************************************************************************)
(* Claims about execAsync                                                  *)
(***************************************************************************)

ExecSettledByCallback ==
    /\ exCallback.kind = "none" => exPromise.state \in {"none", "pending"}
    /\ exCallback.kind = "called" =>
          IF exCallback.err.name = "null"
          THEN exPromise = [state |-> "fulfilled", value |-> exCallback.stdout]
          ELSE exPromise = [state |-> "rejected", reason |-> exCallback.err]

\* C13: execAsync settles once per call: with no error in the callback it
\* fulfils with the captured standard output, and with an error (non-zero
\* exit, spawn failure, timeout) it rejects with that very error; it never
\* does both and a failed run yields no output.
C13_SettlesOnceByError ==
    /\ []ExecSettledByCallback
    /\ [][exPromise.state \in {"fulfilled", "rejected"} => exPromise' = exPromise]_vars

C13_Witness ==
    /\ exCallback.kind = "called"
    /\ exCallback.err # NoErr
    /\ exCallback.err.killed
    /\ exCallback.stdout = "partial"
    /\ exPromise.state = "rejected"
    /\ exPromise.reason = exCallback.err

Below(p) == {c \in AllPaths : Len(c) > Len(p) /\ SubSeq(c, 1, Len(p)) = p}

IsLink(entry) == entry.kind = "link"

\* C16: a source entry is classified as what it is itself, links not
\* followed: where the source holds a symbolic link the destination holds
\* nothing or, once the call for it has fulfilled, a symbolic link with the
\* same target string, and no call is made and nothing is created beneath
\* it, whatever the link points at.
C16_LinksReproducedNotFollowed ==
    cpRuns # <<>> =>
        \A p \in AllPaths :
            /\ (InProgress(cpPc[p]) /\ cpPc[p] # "lstat") \/ cpPc[p] = "fulfilled" =>
                  cpStat[p] = fs[Src][p]
            /\ IsLink(fs[Src][p]) =>
                  /\ fs[Dest][p] \in {Absent, fs[Src][p]}
                  /\ cpPc[p] = "fulfilled" => fs[Dest][p] = fs[Src][p]
                  /\ \A c \in Below(p) : cpPc[c] = "idle" /\ fs[Dest][c] = Absent

\* A copy has fulfilled of a tree with a link to a directory and a link
\* whose target is missing.
C16_Witness ==
    /\ cpRuns = <<(<<"T", "D1">>)>>
    /\ cpPc[<<>>] = "fulfilled"
    /\ fs.T[<<"a">>] = Link("b")
    /\ fs.T[<<"b">>] = Dir
    /\ fs.T[<<"b", "a">>] = Link("../x")
    /\ fs.D1[<<"a">>] = Link("b")
    /\ fs.D1[<<"b", "a">>] = Link("../x")

(***************************************************************************)
(* Claims about copyDir: errors                                            *)
(***************************************************************************)

RejectedChildren(pcs, p) == {c \in Spawned(pcs, p) : pcs[c] = "rejected"}

\* The call for p rejects in this step while awaiting its children.
ChildFailureSurfaces(p) == cpPc[p] = "await" /\ cpPc'[p] = "rejected"

\* C14: when child replications of a directory fail, the directory copy
\* fails with the error of the child failure that surfaces first (no child
\* had failed before it), and the error it reports never changes afterwards:
\* the errors of the children that fail later are dropped.
C14_FirstChildFailureReported ==
    [][\A p \in AllPaths :
          /\ ChildFailureSurfaces(p) =>
                /\ RejectedChildren(cpPc, p) = {}
                /\ \E c \in RejectedChildren(cpPc', p) : cpErr'[p] = cpErr'[c]
          /\ cpPc[p] = "rejected" => cpPc'[p] = "rejected" /\ cpErr'[p] = cpErr[p]]_vars

C14_Witness ==
    /\ cpPc[<<>>] = "rejected"
    /\ cpPc[<<"a">>] = "rejected"
    /\ cpPc[<<"b">>] = "rejected"
    /\ cpErr[<<"a">>] # cpErr[<<"b">>]
    /\ cpErr[<<>>] = cpErr[<<"b">>]

\* A call has rejected: the call of the caller has rejected with an error.
FailurePropagates ==
    \A p \in AllPaths :
        cpPc[p] = "rejected" => cpPc[<<>>] = "rejected" /\ cpErr[<<>>] # NoError

\* C17: when a filesystem operation of copyDir fails, the call of the
\* caller rejects with an error, and nothing is cleaned up: no entry of
\* any tree is ever removed, so every directory, file and link created
\* before the failure is still in the destination.
C17_FailurePropagatesNoCleanup ==
    /\ []FailurePropagates
    /\ [][\A r \in Roots, p \in AllPaths :
              fs[r][p] # Absent => fs'[r][p].kind = fs[r][p].kind]_vars

\* The copy has failed after a directory, a file and a link were created.
C17_Witness ==
    /\ cpPc[<<>>] = "rejected"
    /\ fs.D1[<<>>] = Dir
    /\ fs.D1[<<"a">>].kind = "file"
    /\ fs.D1[<<"b">>].kind = "link"

(***************************************************************************)
(* Claims about copyDir: other entry types, repeated copies                *)
(***************************************************************************)

\* C18: for a source entry that is no directory, file, device or link (a
\* FIFO), the call runs no handler: it fulfils as soon as lstat has
\* returned, and no entry is created at its destination path or beneath it.
C18_OtherTypesSkipped ==
    cpRuns # <<>> =>
        \A p \in AllPaths :
            fs[Src][p] = Fifo =>
                /\ fs[Dest][p] = Absent
                /\ \A c \in Below(p) : fs[Dest][c] = Absent
                /\ \/ cpPc[p] \in {"idle", "lstat", "fulfilled"}
                   \/ cpPc[p] = "rejected" /\ cpErr[p] = [path |-> p, op |-> "lstat"]

\* A copy of a directory holding a FIFO and a file has fulfilled.
C18_Witness ==
    /\ cpPc[<<>>] = "fulfilled"
    /\ fs[Src][<<>>] = Dir
    /\ fs[Src][<<"a">>] = Fifo
    /\ cpPc[<<"a">>] = "fulfilled"
    /\ fs[Src][<<"b">>].kind = "file"
    /\ fs[Dest][<<"b">>].kind = "file"
    /\ fs[Dest][<<"a">>] = Absent

Rerun == cpRuns = <<(<<"T", "D1">>), (<<"T", "D1">>)>>

\* The calls whose own filesystem operation failed.
FailedAt(p) == cpPc[p] = "rejected" /\ cpErr[p].path = p

\* In the second copy of T into D1 no call for a link fulfils, so the copy
\* of a tree with a link does not fulfil.
RerunFailsAtLinks ==
    Rerun =>
        /\ \A p \in AllPaths : IsLink(fs.T[p]) => cpPc[p] # "fulfilled"
        /\ cpPc[<<>>] = "fulfilled" => \A p \in AllPaths : ~IsLink(fs.T[p])

\* C19 as stated: copying the same tree twice into the same destination
\* does not succeed the second time when the tree holds a symbolic link;
\* directories and files that are there are accepted and overwritten, so
\* with no other filesystem error the only operation that fails is the
\* creation of a link.
C19_RerunFailsOnlyAtLinks ==
    /\ RerunFailsAtLinks
    /\ (Rerun /\ cpFaults = 0) =>
          \A p \in AllPaths : FailedAt(p) => cpErr[p].op = "symlink"

\* C19 amended: the second copy does not succeed when the tree holds a
\* symbolic link; directories that are there are accepted and files the
\* process may write are overwritten, so with no other filesystem error
\* the operations that fail are the creation of a link and the overwriting
\* of a read-only file.
C19_RerunFailsAtLinksAndReadOnlyFiles ==
    /\ RerunFailsAtLinks
    /\ (Rerun /\ cpFaults = 0) =>
          \A p \in AllPaths :
              FailedAt(p) =>
                  \/ cpErr[p].op = "symlink" /\ IsLink(fs.T[p])
                  \/ cpErr[p].op = "copyFile" /\ fs.T[p] = File("444")

\* The second copy has failed at the link after the directory was accepted
\* and a file overwritten.
C19_Witness ==
    /\ Rerun
    /\ cpFaults = 0
    /\ fs.T[<<"a">>] = File("644")
    /\ cpPc[<<"a">>] = "fulfilled"
    /\ IsLink(fs.T[<<"b">>])
    /\ cpErr[<<>>] = [path |-> <<"b">>, op |-> "symlink"]
    /\ cpPc[<<>>] = "rejected"

====
